---- MODULE Spec2Model ----
(***************************************************************************)
(* FAISSDocumentStore (src/haystack/document_store/faiss.py): a document   *)
(* store that keeps the vectors of a namespace in a FAISS index and the    *)
(* documents, each with the position of its vector (vector_id), in the SQL *)
(* document store it inherits from.                                        *)
(*                                                                         *)
(* The FAISS index is the flat inner-product index ("Flat", the default    *)
(* factory string); a vector is a tuple of integers, each exactly          *)
(* representable as a float32.  The SQL document store is not part of the  *)
(* file: its operations are modelled from its contract.  The documents of  *)
(* one write_documents call have pairwise distinct ids and carry no        *)
(* "vector_id" key of their own in their meta.                             *)
(***************************************************************************)
EXTENDS Integers, Sequences, FiniteSets, TLC

\* ---------------------------------------------------------------- bounds
\* No call is taken that would grow an index beyond MaxNtotal vectors.
MaxNtotal == 2
\* Largest batch_size handed to write_documents and update_embeddings.
MaxBatchSize == 2
\* Largest top_k handed to query_by_embedding.
MaxTopK == 3

\* ---------------------------------------------------------------- values
\* The ids of the documents callers write.
DocIds == {1, 2}

\* Python's None, for an optional argument.
None == "None"

\* The namespaces of the database; "document" is the default of __init__.
Namespaces == {"document", "other"}

\* A document without an embedding has embedding None: the empty tuple.
NoEmbedding == << >>

\* The embeddings documents and queries carry (vector_dim = 2).
Embeddings == {<<1, 0>>, <<1, 1>>}

\* A document handed to write_documents: its id and its optional embedding.
InputDocs == [id : DocIds, embedding : Embeddings \cup {NoEmbedding}]

\* Optional filters: None (the empty tuple) or a filter, given by the set
\* of document ids whose meta it matches.
NoFilters == << >>

Filters == {NoFilters} \cup {<<{d}>> : d \in DocIds}

Min(a, b) == IF a < b THEN a ELSE b

\* The elements of a sequence.
Range(s) == {s[j] : j \in 1..Len(s)}

\* All orders of the finite set S, as sequences.
Perms(S) ==
    {s \in [1..Cardinality(S) -> S] : \A i, j \in DOMAIN s : s[i] = s[j] => i = j}

\* ------------------------------------------------- the FAISS index (Flat)
\* faiss.index_factory(vector_dim, "Flat", METRIC_INNER_PRODUCT): empty.
index_factory(d) == [d |-> d, xb |-> << >>]

ntotal(ix) == Len(ix.xb)

\* Index.add: appends the vectors in order.
add(ix, vectors) == [ix EXCEPT !.xb = @ \o vectors]

\* Index.reset: drops every vector.
reset(ix) == [ix EXCEPT !.xb = << >>]

\* Index.reconstruct: the vector stored at position vector_id (0-based).
reconstruct(ix, vector_id) == ix.xb[vector_id + 1]

RECURSIVE InnerProduct(_, _)
InnerProduct(a, b) ==
    IF a = << >> \/ b = << >> THEN 0
    ELSE Head(a) * Head(b) + InnerProduct(Tail(a), Tail(b))

\* The id search reports for a missing neighbour.
Sentinel == -1

\* The score search reports with it: below every inner product.
SentinelScore == -1000

\* Index.search(query, k) of a flat inner-product index: k (score, id)
\* pairs, the min(k, ntotal) best positions by descending inner product
\* (ties in any order), then sentinels.  The set of possible outcomes.
search(ix, query_emb, top_k) ==
    LET n == ntotal(ix)
        found == Min(top_k, n)
        score(p) == InnerProduct(query_emb, reconstruct(ix, p))
        best == {s \in [1..found -> 0..(n - 1)] :
                    /\ \A i, j \in 1..found : s[i] = s[j] => i = j
                    /\ \A i \in 1..found : \A j \in 1..found :
                          i < j => score(s[i]) >= score(s[j])
                    /\ \A p \in 0..(n - 1) :
                          (\A i \in 1..found : s[i] # p) =>
                             \A i \in 1..found : score(s[i]) >= score(p)}
    IN  {[I |-> [i \in 1..top_k |-> IF i <= found THEN s[i] ELSE Sentinel],
          D |-> [i \in 1..top_k |-> IF i <= found THEN score(s[i])
                                     ELSE SentinelScore]] : s \in best}

\* faiss.write_index: the index as the file holds it (dimension, count,
\* the components of the vectors one after the other).
RECURSIVE Flatten(_)
Flatten(vectors) ==
    IF vectors = << >> THEN << >> ELSE Head(vectors) \o Flatten(Tail(vectors))

write_index(ix) == [d |-> ix.d, ntotal |-> ntotal(ix), codes |-> Flatten(ix.xb)]

\* faiss.read_index: the index rebuilt from the file.
read_index(f) ==
    [d |-> f.d,
     xb |-> [i \in 1..f.ntotal |-> SubSeq(f.codes, (i - 1) * f.d + 1, i * f.d)]]

\* ------------------------------------------- the SQL document store
\* A row of a namespace: the document's vector_id, << >> when it has none.
NoVectorId == << >>

has_vector_id(row) == row.vector_id # NoVectorId

vector_id_of(row) == row.vector_id[1]

\* A namespace without documents.
EmptyRows == [d \in {} |-> [vector_id |-> NoVectorId]]

\* SQLDocumentStore.get_document_count(index).
get_document_count(rows) == Cardinality(DOMAIN rows)

\* SQLDocumentStore.write_documents(docs, index) accepts the documents
\* unless overwriting is off and one of the ids is already stored.
sql_write_accepts(rows, docs, overwrite) ==
    overwrite \/ \A i \in DOMAIN docs : docs[i].id \notin DOMAIN rows

\* The rows after an accepted write: every document stored, or stored
\* anew, with the vector_id of its meta.
RECURSIVE sql_write_documents(_, _)
sql_write_documents(rows, docs) ==
    IF docs = << >> THEN rows
    ELSE LET doc == Head(docs)
             put == [d \in DOMAIN rows \cup {doc.id} |->
                        IF d = doc.id THEN [vector_id |-> doc.vector_id]
                        ELSE rows[d]]
         IN  sql_write_documents(put, Tail(docs))

\* SQLDocumentStore.update_vector_ids(vector_id_map, index).
sql_update_vector_ids(rows, vector_id_map) ==
    [d \in DOMAIN rows |->
        IF d \in DOMAIN vector_id_map
        THEN [rows[d] EXCEPT !.vector_id = <<vector_id_map[d]>>]
        ELSE rows[d]]

\* The documents SQLDocumentStore._query selects for the filters.
sql_query_ids(rows, filters, only_documents_without_embedding) ==
    {d \in DOMAIN rows :
        /\ filters = NoFilters \/ d \in filters[1]
        /\ only_documents_without_embedding => ~has_vector_id(rows[d])}

\* SQLDocumentStore.get_documents_by_vector_ids(vector_ids, index): the
\* documents whose vector_id is among those asked for.
sql_ids_by_vector_ids(rows, vector_ids) ==
    {d \in DOMAIN rows :
        /\ has_vector_id(rows[d])
        /\ vector_id_of(rows[d]) \in Range(vector_ids)}

\* SQLDocumentStore.delete_all_documents(index).
sql_delete_all_documents(rows) == EmptyRows

\* ------------------------------------------------------------- the store
VARIABLES
    faiss_indexes,              \* self.faiss_indexes: namespace -> FAISS index
    index,                      \* self.index: the store's default namespace
    vector_dim,                 \* self.vector_dim
    update_existing_documents,  \* the SQL store's overwrite-by-id switch
    return_embedding,           \* self.return_embedding
    sql,                        \* the SQL database: namespace -> rows
    file,                       \* the file save() writes: << >> or <<contents>>
    embedded,                   \* history: the embedding last supplied or
                                \* computed for each stored document
    assigned,                   \* history (kept by SpecHistory alone): the
                                \* vector ids given to documents of a
                                \* namespace, ever and since the last
                                \* delete_all_documents on it
    saved,                      \* history: what the store that called save()
                                \* held then; << >> once a write, an update
                                \* or a delete has run since
    last,                       \* history: the last call and its outcome
    frames,                     \* the calls in flight, one frame per caller:
                                \* where the call stands and its locals
    overlapped                  \* history: whether two calls have been in
                                \* flight at the same time

vars == <<faiss_indexes, index, vector_dim, update_existing_documents,
          return_embedding, sql, file, embedded, assigned, saved, last,
          frames, overlapped>>

store == <<faiss_indexes, index, vector_dim, update_existing_documents,
           return_embedding>>

\* _create_new_index with the "Flat" factory string.
create_new_index(dim) == index_factory(dim)

\* A slip: one index shared by every namespace.
register_for_all(indexes, name, ix) ==
    [n \in DOMAIN indexes \cup {name} |-> ix]

\* self.faiss_indexes[name] = ix.
register(indexes, name, ix) ==
    [n \in DOMAIN indexes \cup {name} |-> IF n = name THEN ix ELSE indexes[n]]

\* self.faiss_indexes = {}.
NoIndexes == [n \in {} |-> index_factory(0)]

\* index = index or self.index.
resolve(index_arg) == IF index_arg = None THEN index ELSE index_arg

\* The threads that call the store.
Callers == {"a", "b"}

\* The frame of a caller that is in no call.
Idle == [op |-> "idle"]

\* __init__ with the default factory string and no faiss_index, on an
\* empty database.
Init ==
    /\ vector_dim = 2
    /\ index = "document"
    /\ faiss_indexes = register(NoIndexes, "document", create_new_index(2))
    /\ update_existing_documents \in BOOLEAN
    /\ return_embedding \in BOOLEAN
    /\ sql = [n \in Namespaces |-> EmptyRows]
    /\ file = << >>
    /\ embedded = [n \in Namespaces |-> [d \in DocIds |-> NoEmbedding]]
    /\ assigned = [n \in Namespaces |-> [ever |-> {}, since_reset |-> {}]]
    /\ saved = << >>
    /\ last = [op |-> "init"]
    /\ frames = [c \in Callers |-> Idle]
    /\ overlapped = FALSE

\* ------------------------------------------------------ write_documents
\* A slip: vectors are added when any document of the list has one.
add_vectors_of_any(document_objects) ==
    \E j \in 1..Len(document_objects) : document_objects[j].embedding # NoEmbedding

\* add_vectors = False if document_objects[0].embedding is None else True
add_vectors_of(document_objects) == document_objects[1].embedding # NoEmbedding

\* A slip: the counter starts at 0 whatever the index holds.
first_vector_id_zero(ix) == 0

\* vector_id = self.faiss_indexes[index].ntotal
first_vector_id(ix) == ntotal(ix)

\* document_objects[i: i + batch_size], i counted from 0.
batch_of(document_objects, i, batch_size) ==
    SubSeq(document_objects, i + 1, Min(i + batch_size, Len(document_objects)))

\* A slip: the documents are stamped whether or not vectors are added.
stamp_whatever_add_vectors(batch, vector_id, add_vectors) ==
    [j \in 1..Len(batch) |->
        [id |-> batch[j].id,
         embedding |-> batch[j].embedding,
         vector_id |-> <<vector_id + (j - 1)>>]]

\* A slip: the counter is not advanced inside a batch.
stamp_without_increment(batch, vector_id, add_vectors) ==
    [j \in 1..Len(batch) |->
        [id |-> batch[j].id,
         embedding |-> batch[j].embedding,
         vector_id |-> IF add_vectors THEN <<vector_id>> ELSE NoVectorId]]

\* The loop over a batch that builds docs_to_write_in_sql: each document
\* with meta["vector_id"] = vector_id, and vector_id += 1, when vectors
\* are added.
stamp(batch, vector_id, add_vectors) ==
    [j \in 1..Len(batch) |->
        [id |-> batch[j].id,
         embedding |-> batch[j].embedding,
         vector_id |-> IF add_vectors THEN <<vector_id + (j - 1)>> ELSE NoVectorId]]

\* The history of embeddings after the documents of a batch are stored:
\* the vector appended for the document, none when none was appended.
RECURSIVE remember(_, _, _)
remember(emb, docs, add_vectors) ==
    IF docs = << >> THEN emb
    ELSE remember([emb EXCEPT ![Head(docs).id] =
                      IF add_vectors THEN Head(docs).embedding ELSE NoEmbedding],
                  Tail(docs), add_vectors)

\* The vector ids the documents of a batch are stored with.
given_to(docs) ==
    {docs[j].vector_id[1] : j \in {k \in 1..Len(docs) : docs[k].vector_id # NoVectorId}}

\* The loop over the batches, from document i on.  st holds the index, the
\* rows and the histories so far; st.ok turns FALSE where the call raises:
\* np.array / Index.add reject a batch that holds a document without
\* embedding (nothing of the batch is added), the SQL store rejects a
\* batch (its vectors are already added).
RECURSIVE write_batches(_, _, _, _, _, _, _)
write_batches(st, document_objects, i, batch_size, vector_id, add_vectors, overwrite) ==
    IF i >= Len(document_objects) THEN st
    ELSE
      LET batch == batch_of(document_objects, i, batch_size)
          embeddings == [j \in 1..Len(batch) |-> batch[j].embedding]
          addable == \A j \in 1..Len(batch) : embeddings[j] # NoEmbedding
          ix1 == IF add_vectors THEN add(st.ix, embeddings) ELSE st.ix
          docs_to_write_in_sql == stamp(batch, vector_id, add_vectors)
      IN  IF add_vectors /\ ~addable THEN [st EXCEPT !.ok = FALSE]
          ELSE IF ~sql_write_accepts(st.rows, docs_to_write_in_sql, overwrite)
          THEN [st EXCEPT !.ix = ix1, !.ok = FALSE]
          ELSE write_batches(
                 [ix |-> ix1,
                  rows |-> sql_write_documents(st.rows, docs_to_write_in_sql),
                  emb |-> remember(st.emb, docs_to_write_in_sql, add_vectors),
                  given |-> st.given \cup given_to(docs_to_write_in_sql),
                  ok |-> TRUE],
                 document_objects, i + batch_size, batch_size,
                 IF add_vectors THEN vector_id + Len(batch) ELSE vector_id,
                 add_vectors, overwrite)

\* write_documents(documents, index, batch_size).  An empty list raises at
\* document_objects[0], after the namespace's index has been created.
WriteDocuments(documents, index_arg, batch_size) ==
    LET ns == resolve(index_arg)
        indexes == IF ns \in DOMAIN faiss_indexes THEN faiss_indexes
                   ELSE register(faiss_indexes, ns, create_new_index(vector_dim))
        add_vectors == documents # << >> /\ add_vectors_of(documents)
        st == IF documents = << >>
              THEN [ix |-> indexes[ns], rows |-> sql[ns], emb |-> embedded[ns],
                    given |-> {}, ok |-> FALSE]
              ELSE write_batches(
                     [ix |-> indexes[ns], rows |-> sql[ns], emb |-> embedded[ns],
                      given |-> {}, ok |-> TRUE],
                     documents, 0, batch_size, first_vector_id(indexes[ns]),
                     add_vectors, update_existing_documents)
    IN  /\ ntotal(st.ix) <= MaxNtotal
        /\ faiss_indexes' = register(indexes, ns, st.ix)
        /\ sql' = [sql EXCEPT ![ns] = st.rows]
        /\ embedded' = [embedded EXCEPT ![ns] = st.emb]
        /\ saved' = << >>
        /\ last' = [op |-> "write_documents", index |-> ns, ok |-> st.ok,
                    ids |-> [j \in 1..Len(documents) |-> documents[j].id],
                    with_embedding |->
                       [j \in 1..Len(documents) |->
                           documents[j].embedding # NoEmbedding],
                    add_vectors |-> add_vectors,
                    S |-> ntotal(indexes[ns]),
                    given |-> st.given,
                    after_delete |-> /\ last.op = "delete_all_documents"
                                     /\ last.index = ns]
        /\ UNCHANGED <<index, vector_dim, update_existing_documents,
                       return_embedding, file>>

\* ---------------------------------------------------- update_embeddings
\* A slip: every document is streamed, whatever update_existing_embeddings.
only_documents_without_embedding_never(update_existing_embeddings) == FALSE

\* only_documents_without_embedding = not update_existing_embeddings
only_documents_without_embedding(update_existing_embeddings) ==
    ~update_existing_embeddings

\* The pages get_batches_from_generator cuts the stream into.
NumPages(stream, batch_size) == (Len(stream) + batch_size - 1) \div batch_size

\* A slip: the counter is not advanced inside a page.
vector_id_map_without_increment(document_batch, vector_id) ==
    [d \in Range(document_batch) |-> vector_id]

\* vector_id_map of a page: vector_id_map[doc.id] = vector_id; vector_id += 1.
vector_id_map_of(document_batch, vector_id) ==
    [d \in Range(document_batch) |->
        vector_id + (CHOOSE j \in 1..Len(document_batch) : document_batch[j] = d) - 1]

\* A slip: the vectors of a page are added before their number is checked.
RECURSIVE update_pages_add_before_assert(_, _, _, _, _, _, _)
update_pages_add_before_assert(st, stream, i, batch_size, vector_id, embed, bad_page) ==
    IF i >= Len(stream) THEN st
    ELSE
      LET document_batch == batch_of(stream, i, batch_size)
          embeddings == [j \in 1..Len(document_batch) |-> embed[document_batch[j]]]
          vector_id_map == vector_id_map_of(document_batch, vector_id)
      IN  IF bad_page = i \div batch_size + 1
          THEN [st EXCEPT !.ix = add(st.ix, Tail(embeddings)), !.ok = FALSE]
          ELSE update_pages_add_before_assert(
                 [ix |-> add(st.ix, embeddings),
                  rows |-> sql_update_vector_ids(st.rows, vector_id_map),
                  emb |-> [d \in DocIds |-> IF d \in DOMAIN vector_id_map
                                            THEN embed[d] ELSE st.emb[d]],
                  given |-> st.given \cup {vector_id_map[d] : d \in DOMAIN vector_id_map},
                  ok |-> TRUE],
                 stream, i + batch_size, batch_size,
                 vector_id + Len(document_batch), embed, bad_page)

\* The loop over the pages, from document i of the stream on.  embed is
\* what retriever.embed_passages computes for each document; on page
\* bad_page (counted from 1; 0: on none) it returns a list of another
\* length and the assert raises.
RECURSIVE update_pages(_, _, _, _, _, _, _)
update_pages(st, stream, i, batch_size, vector_id, embed, bad_page) ==
    IF i >= Len(stream) THEN st
    ELSE
      LET document_batch == batch_of(stream, i, batch_size)
          embeddings == [j \in 1..Len(document_batch) |-> embed[document_batch[j]]]
          vector_id_map == vector_id_map_of(document_batch, vector_id)
      IN  IF bad_page = i \div batch_size + 1 THEN [st EXCEPT !.ok = FALSE]
          ELSE update_pages(
                 [ix |-> add(st.ix, embeddings),
                  rows |-> sql_update_vector_ids(st.rows, vector_id_map),
                  emb |-> [d \in DocIds |-> IF d \in DOMAIN vector_id_map
                                            THEN embed[d] ELSE st.emb[d]],
                  given |-> st.given \cup {vector_id_map[d] : d \in DOMAIN vector_id_map},
                  ok |-> TRUE],
                 stream, i + batch_size, batch_size,
                 vector_id + Len(document_batch), embed, bad_page)

\* update_embeddings(retriever, index, update_existing_embeddings, filters,
\* batch_size).  The documents are streamed in any order; last.done counts
\* the streamed documents whose pages came before the one that raised (all
\* of them when none did).
UpdateEmbeddings(index_arg, update_existing_embeddings, filters, batch_size) ==
    LET ns == resolve(index_arg)
        call == [op |-> "update_embeddings", index |-> ns,
                 update_existing_embeddings |-> update_existing_embeddings,
                 filters |-> filters]
    IN  IF ns \notin DOMAIN faiss_indexes
        THEN /\ last' = call @@ [ok |-> FALSE, error |-> "ValueError",
                                 stream |-> << >>, S |-> 0, given |-> {},
                                 done |-> 0]
             /\ saved' = << >>
             /\ UNCHANGED <<store, sql, file, embedded>>
        ELSE IF get_document_count(sql[ns]) = 0
        THEN /\ last' = call @@ [ok |-> TRUE, error |-> "", stream |-> << >>,
                                 S |-> ntotal(faiss_indexes[ns]), given |-> {},
                                 done |-> 0]
             /\ saved' = << >>
             /\ UNCHANGED <<store, sql, file, embedded>>
        ELSE
          \E stream \in Perms(sql_query_ids(sql[ns], filters,
                   only_documents_without_embedding(update_existing_embeddings))) :
          \E embed \in [Range(stream) -> Embeddings] :
          \E bad_page \in 0..NumPages(stream, batch_size) :
            LET st == update_pages(
                        [ix |-> faiss_indexes[ns], rows |-> sql[ns],
                         emb |-> embedded[ns], given |-> {}, ok |-> TRUE],
                        stream, 0, batch_size, first_vector_id(faiss_indexes[ns]),
                        embed, bad_page)
            IN  /\ ntotal(st.ix) <= MaxNtotal
                /\ faiss_indexes' = register(faiss_indexes, ns, st.ix)
                /\ sql' = [sql EXCEPT ![ns] = st.rows]
                /\ embedded' = [embedded EXCEPT ![ns] = st.emb]
                /\ saved' = << >>
                /\ last' = call @@ [ok |-> st.ok,
                                    error |-> IF st.ok THEN "" ELSE "AssertionError",
                                    stream |-> stream,
                                    S |-> ntotal(faiss_indexes[ns]),
                                    given |-> st.given,
                                    done |-> IF bad_page = 0 THEN Len(stream)
                                             ELSE (bad_page - 1) * batch_size]
                /\ UNCHANGED <<index, vector_dim, update_existing_documents,
                               return_embedding, file>>

\* ---------------------------------------------------------- train_index
\* An optional argument: << >> when it is None, <<value>> otherwise.
Absent == << >>

\* bool(documents): None and the empty list are false.
truth_of_list(documents) ==
    IF documents = Absent \/ Len(documents[1]) = 0 THEN "False" ELSE "True"

\* bool(embeddings): None is false, an array of more than one element
\* raises ValueError.
truth_of_array(embeddings) ==
    IF embeddings = Absent THEN "False"
    ELSE IF Len(embeddings[1]) * vector_dim > 1 THEN "ValueError"
    ELSE "True"

\* What train_index raises before it trains: ValueError from the truth
\* value of the array, or from `if embeddings and documents` itself.
train_raises(documents, embeddings) ==
    IF truth_of_array(embeddings) = "ValueError" THEN "ValueError"
    ELSE IF truth_of_array(embeddings) = "True" /\ truth_of_list(documents) = "True"
    THEN "ValueError"
    ELSE ""

\* train_index(documents, embeddings, index).  A flat index needs no
\* training and Index.train leaves it as it is; last.trained holds the
\* vectors handed to Index.train, << >> when it was not called.
TrainIndex(documents, embeddings, index_arg) ==
    LET ns == resolve(index_arg)
        call == [op |-> "train_index", index |-> ns,
                 documents |-> documents # Absent,
                 embeddings |-> embeddings # Absent]
        doc_embeddings == [j \in 1..Len(documents[1]) |-> documents[1][j].embedding]
    IN  /\ UNCHANGED <<store, sql, file, embedded, saved>>
        /\ IF train_raises(documents, embeddings) # ""
           THEN last' = call @@ [ok |-> FALSE,
                                 error |-> train_raises(documents, embeddings),
                                 trained |-> << >>]
           ELSE IF truth_of_list(documents) = "True"
           THEN IF ns \notin DOMAIN faiss_indexes
                THEN last' = call @@ [ok |-> FALSE, error |-> "KeyError",
                                      trained |-> << >>]
                ELSE IF \E j \in 1..Len(doc_embeddings) :
                           doc_embeddings[j] = NoEmbedding
                THEN last' = call @@ [ok |-> FALSE, error |-> "ValueError",
                                      trained |-> << >>]
                ELSE last' = call @@ [ok |-> TRUE, error |-> "",
                                      trained |-> doc_embeddings]
           ELSE IF truth_of_array(embeddings) = "True"
           THEN IF ns \notin DOMAIN faiss_indexes
                THEN last' = call @@ [ok |-> FALSE, error |-> "KeyError",
                                      trained |-> << >>]
                ELSE last' = call @@ [ok |-> TRUE, error |-> "",
                                      trained |-> embeddings[1]]
           ELSE last' = call @@ [ok |-> TRUE, error |-> "", trained |-> << >>]

\* -------------------------------------------------- delete_all_documents
\* A slip: the index is left as it is.
reset_index_skipped(indexes, ns) == indexes

\* if index in self.faiss_indexes.keys(): self.faiss_indexes[index].reset()
reset_index(indexes, ns) ==
    IF ns \in DOMAIN indexes THEN register(indexes, ns, reset(indexes[ns]))
    ELSE indexes

\* delete_all_documents(index, filters): filters only draw a warning.
DeleteAllDocuments(index_arg, filters) ==
    LET ns == resolve(index_arg)
    IN  /\ faiss_indexes' = reset_index(faiss_indexes, ns)
        /\ sql' = [sql EXCEPT ![ns] = sql_delete_all_documents(sql[ns])]
        /\ embedded' = [embedded EXCEPT ![ns] = [d \in DocIds |-> NoEmbedding]]
        /\ saved' = << >>
        /\ last' = [op |-> "delete_all_documents", index |-> ns]
        /\ UNCHANGED <<index, vector_dim, update_existing_documents,
                       return_embedding, file>>

\* ------------------------------------------------------------- the reads
\* return_embedding = self.return_embedding when the argument is None.
effective(return_embedding_arg) ==
    IF return_embedding_arg = None THEN return_embedding
    ELSE return_embedding_arg = "True"

\* [str(vector_id) for vector_id in vector_id_matrix[0] if vector_id != -1]
vector_ids_for_query_of(vector_id_matrix) ==
    LET kept(v) == v # Sentinel IN SelectSeq(vector_id_matrix, kept)

\* A slip: every document gets the best score of the search.
scores_for_vector_ids_best(res, v) == res.D[1]

\* scores_for_vector_ids[v]: the dict built from zip(ids, scores) keeps,
\* for an id that occurs more than once, the score of its last occurrence.
scores_for_vector_ids(res, v) ==
    LET at == {i \in DOMAIN res.I : res.I[i] = v}
    IN  res.D[CHOOSE i \in at : \A j \in at : j <= i]

\* The documents of a query, in the order the SQL store's lookup hands
\* them over, each with its score and, if asked for, its vector.
scored(ix, rows, res, documents, with_embedding) ==
    [j \in 1..Len(documents) |->
        LET v == vector_id_of(rows[documents[j]])
        IN  [id |-> documents[j],
             vector_id |-> v,
             score |-> scores_for_vector_ids(res, v),
             embedding |-> IF with_embedding THEN reconstruct(ix, v)
                           ELSE NoEmbedding]]

\* What query_by_embedding can return on index ix and the rows of its
\* namespace: one outcome for each result of the search and each order the
\* SQL store's lookup may hand the documents over in.
query_outcomes(ix, rows, query_emb, top_k, with_embedding) ==
    UNION {
      LET vector_ids_for_query == vector_ids_for_query_of(res.I)
      IN  {[ok |-> TRUE, ntotal |-> ntotal(ix), I |-> res.I, D |-> res.D,
            documents |-> scored(ix, rows, res, documents, with_embedding)] :
              documents \in Perms(sql_ids_by_vector_ids(rows, vector_ids_for_query))}
      : res \in search(ix, query_emb, top_k)}

\* A slip: a namespace without index gets an empty one, as in
\* write_documents, and the query answers with no document.
QueryByEmbedding_creating_index(query_emb, top_k, index_arg, return_embedding_arg) ==
    LET ns == resolve(index_arg)
        call == [op |-> "query_by_embedding", index |-> ns,
                 query_emb |-> query_emb, top_k |-> top_k]
    IN  IF ns \notin DOMAIN faiss_indexes
        THEN /\ faiss_indexes' = register(faiss_indexes, ns,
                                          create_new_index(vector_dim))
             /\ last' = call @@ [ok |-> TRUE, ntotal |-> 0, I |-> << >>,
                                 D |-> << >>, documents |-> << >>]
             /\ UNCHANGED <<index, vector_dim, update_existing_documents,
                            return_embedding, sql, file, embedded, saved>>
        ELSE /\ UNCHANGED <<store, sql, file, embedded, saved>>
             /\ \E out \in query_outcomes(faiss_indexes[ns], sql[ns], query_emb,
                                          top_k, effective(return_embedding_arg)) :
                   last' = call @@ out

\* query_by_embedding(query_emb, filters, top_k, index, return_embedding);
\* filters only draw a warning.
QueryByEmbedding(query_emb, top_k, index_arg, return_embedding_arg) ==
    LET ns == resolve(index_arg)
        call == [op |-> "query_by_embedding", index |-> ns,
                 query_emb |-> query_emb, top_k |-> top_k]
    IN  /\ UNCHANGED <<store, sql, file, embedded, saved>>
        /\ IF ns \notin DOMAIN faiss_indexes
           THEN last' = call @@ [ok |-> FALSE, ntotal |-> 0, I |-> << >>,
                                 D |-> << >>, documents |-> << >>]
           ELSE \E out \in query_outcomes(faiss_indexes[ns], sql[ns], query_emb,
                                          top_k, effective(return_embedding_arg)) :
                   last' = call @@ out

\* The documents a read returns, each with doc.embedding attached when
\* embeddings are wanted and the document carries a vector_id.
attached(ix, rows, ids, with_embedding) ==
    [j \in 1..Len(ids) |->
        [id |-> ids[j],
         vector_id |-> rows[ids[j]].vector_id,
         embedding |-> IF with_embedding /\ has_vector_id(rows[ids[j]])
                       THEN reconstruct(ix, vector_id_of(rows[ids[j]]))
                       ELSE NoEmbedding]]

\* Whether a read that attaches embeddings raises: self.faiss_indexes[index]
\* is missing, or reconstruct is asked for a position the index lacks.
read_raises(indexes, ns, rows, ids, with_embedding) ==
    /\ with_embedding
    /\ \E j \in 1..Len(ids) :
          /\ has_vector_id(rows[ids[j]])
          /\ \/ ns \notin DOMAIN indexes
             \/ vector_id_of(rows[ids[j]]) >= ntotal(indexes[ns])

\* What a read hands back for the documents ids.
read(op, ns, ids, with_embedding) ==
    IF read_raises(faiss_indexes, ns, sql[ns], ids, with_embedding)
    THEN [op |-> op, index |-> ns, ok |-> FALSE,
          with_embedding |-> with_embedding, documents |-> << >>]
    ELSE [op |-> op, index |-> ns, ok |-> TRUE,
          with_embedding |-> with_embedding,
          documents |-> attached(faiss_indexes[ns], sql[ns], ids, with_embedding)]

\* get_all_documents(index, filters, return_embedding, batch_size).
GetAllDocuments(index_arg, filters, return_embedding_arg) ==
    LET ns == resolve(index_arg)
    IN  /\ UNCHANGED <<store, sql, file, embedded, saved>>
        /\ \E ids \in Perms(sql_query_ids(sql[ns], filters, FALSE)) :
             last' = read("get_all_documents", ns, ids,
                          effective(return_embedding_arg))

\* get_documents_by_id(ids, index): embeddings follow self.return_embedding.
GetDocumentsById(ids, index_arg) ==
    LET ns == resolve(index_arg)
        stored(d) == d \in DOMAIN sql[ns]
    IN  /\ UNCHANGED <<store, sql, file, embedded, saved>>
        /\ last' = read("get_documents_by_id", ns, SelectSeq(ids, stored),
                        return_embedding)

\* ------------------------------------------------------- save and load
\* save(file_path): faiss.write_index(self.faiss_indexes[self.index], path);
\* a KeyError when the store has no index for its own namespace.
Save ==
    IF index \in DOMAIN faiss_indexes
    THEN /\ file' = <<write_index(faiss_indexes[index])>>
         /\ saved' = <<[index |-> index, ix |-> faiss_indexes[index],
                        rows |-> sql[index]]>>
         /\ last' = [op |-> "save", index |-> index, ok |-> TRUE]
         /\ UNCHANGED <<store, sql, embedded>>
    ELSE /\ last' = [op |-> "save", index |-> index, ok |-> FALSE]
         /\ UNCHANGED <<store, sql, file, embedded, saved>>

\* The namespace the loaded index is registered under: cls(index=index).
loaded_as(name) == name

\* A slip: the index read from the file is not handed to __init__, which
\* builds an empty one of that dimension.
Load_without_faiss_index(name) ==
    /\ file # << >>
    /\ LET faiss_index == read_index(file[1])
       IN  /\ faiss_indexes' = register(NoIndexes, loaded_as(name),
                                        create_new_index(faiss_index.d))
           /\ vector_dim' = faiss_index.d
    /\ index' = name
    /\ update_existing_documents' = FALSE
    /\ return_embedding' = FALSE
    /\ last' = [op |-> "load", index |-> name]
    /\ UNCHANGED <<sql, file, embedded, saved>>

\* load(faiss_file_path, sql_url, index): a store built by __init__ around
\* the index read from the file, vector_dim = faiss_index.d, every other
\* argument at its default, on the same database.
Load(name) ==
    /\ file # << >>
    /\ LET faiss_index == read_index(file[1])
       IN  /\ faiss_indexes' = register(NoIndexes, loaded_as(name), faiss_index)
           /\ vector_dim' = faiss_index.d
    /\ index' = name
    /\ update_existing_documents' = FALSE
    /\ return_embedding' = FALSE
    /\ last' = [op |-> "load", index |-> name]
    /\ UNCHANGED <<sql, file, embedded, saved>>

\* ---------------------------------------------- the calls, step by step
\* The same calls taken one store call at a time: a step ends at a call on
\* the FAISS index or on the SQL store.  last, saved and file stay as they
\* are, but for stop.
\* The frame of caller c becomes f.
become(c, f) ==
    /\ frames' = [frames EXCEPT ![c] = f]
    /\ overlapped' = (overlapped \/ (/\ f.op # "idle"
                                     /\ \E o \in Callers \ {c} :
                                           frames[o].op # "idle"))

\* write_documents up to the loop: the namespace's index is created when
\* it is missing, add_vectors and vector_id are read.  An empty list raises
\* at document_objects[0].
write_begin(c, documents, index_arg, batch_size) ==
    LET ns == resolve(index_arg)
        indexes == IF ns \in DOMAIN faiss_indexes THEN faiss_indexes
                   ELSE register(faiss_indexes, ns, create_new_index(vector_dim))
    IN  /\ frames[c].op = "idle"
        /\ faiss_indexes' = indexes
        /\ IF documents = << >> THEN become(c, Idle)
           ELSE become(c, [op |-> "write_documents", pc |-> "add", index |-> ns,
                           document_objects |-> documents, i |-> 0,
                           batch_size |-> batch_size,
                           vector_id |-> first_vector_id(indexes[ns]),
                           add_vectors |-> add_vectors_of(documents)])
        /\ UNCHANGED <<index, vector_dim, update_existing_documents,
                       return_embedding, sql, file, embedded, saved, last>>

\* The first half of a turn of the loop: Index.add of the batch's vectors;
\* it raises on a batch that holds a document without embedding.
write_add(c) ==
    LET f == frames[c]
        batch == batch_of(f.document_objects, f.i, f.batch_size)
        embeddings == [j \in 1..Len(batch) |-> batch[j].embedding]
        addable == \A j \in 1..Len(batch) : embeddings[j] # NoEmbedding
    IN  /\ f.op = "write_documents"
        /\ f.pc = "add"
        /\ IF ~f.add_vectors
           THEN become(c, [f EXCEPT !.pc = "sql"]) /\ UNCHANGED faiss_indexes
           ELSE IF ~addable
           THEN become(c, Idle) /\ UNCHANGED faiss_indexes
           ELSE /\ ntotal(faiss_indexes[f.index]) + Len(batch) <= MaxNtotal
                /\ faiss_indexes' = [faiss_indexes EXCEPT
                                        ![f.index] = add(@, embeddings)]
                /\ become(c, [f EXCEPT !.pc = "sql"])
        /\ UNCHANGED <<index, vector_dim, update_existing_documents,
                       return_embedding, sql, file, embedded, saved, last>>

\* The second half: the batch is stamped and handed to the SQL store, which
\* may reject it.
write_sql(c) ==
    LET f == frames[c]
        batch == batch_of(f.document_objects, f.i, f.batch_size)
        docs_to_write_in_sql == stamp(batch, f.vector_id, f.add_vectors)
    IN  /\ f.op = "write_documents"
        /\ f.pc = "sql"
        /\ IF ~sql_write_accepts(sql[f.index], docs_to_write_in_sql,
                                 update_existing_documents)
           THEN become(c, Idle) /\ UNCHANGED <<sql, embedded>>
           ELSE /\ sql' = [sql EXCEPT ![f.index] =
                              sql_write_documents(@, docs_to_write_in_sql)]
                /\ embedded' = [embedded EXCEPT ![f.index] =
                                   remember(@, docs_to_write_in_sql, f.add_vectors)]
                /\ become(c, IF f.i + f.batch_size >= Len(f.document_objects)
                             THEN Idle
                             ELSE [f EXCEPT !.pc = "add",
                                            !.i = @ + f.batch_size,
                                            !.vector_id =
                                               IF f.add_vectors THEN @ + Len(batch)
                                               ELSE @])
        /\ UNCHANGED <<store, file, saved, last>>

\* update_embeddings up to the loop.  It raises without index, returns on
\* an empty namespace; the stream is the result of _query at this point.
update_begin(c, index_arg, update_existing_embeddings, filters, batch_size) ==
    LET ns == resolve(index_arg)
    IN  /\ frames[c].op = "idle"
        /\ IF ns \notin DOMAIN faiss_indexes \/ get_document_count(sql[ns]) = 0
           THEN become(c, Idle)
           ELSE \E stream \in Perms(sql_query_ids(sql[ns], filters,
                    only_documents_without_embedding(update_existing_embeddings))) :
                  IF stream = << >> THEN become(c, Idle)
                  ELSE become(c, [op |-> "update_embeddings", pc |-> "add",
                                  index |-> ns, stream |-> stream, i |-> 0,
                                  batch_size |-> batch_size,
                                  vector_id |-> first_vector_id(faiss_indexes[ns]),
                                  embeddings |-> << >>])
        /\ UNCHANGED <<store, sql, file, embedded, saved, last>>

\* The first half of a page: the embedder is called, the assert raises on
\* another number of vectors, the vectors are added.
update_add(c) ==
    LET f == frames[c]
        document_batch == batch_of(f.stream, f.i, f.batch_size)
    IN  /\ f.op = "update_embeddings"
        /\ f.pc = "add"
        /\ \/ become(c, Idle) /\ UNCHANGED faiss_indexes
           \/ \E embeddings \in [1..Len(document_batch) -> Embeddings] :
                /\ ntotal(faiss_indexes[f.index]) + Len(document_batch) <= MaxNtotal
                /\ faiss_indexes' = [faiss_indexes EXCEPT
                                        ![f.index] = add(@, embeddings)]
                /\ become(c, [f EXCEPT !.pc = "sql", !.embeddings = embeddings])
        /\ UNCHANGED <<index, vector_dim, update_existing_documents,
                       return_embedding, sql, file, embedded, saved, last>>

\* The second half: vector_id_map is built and handed to update_vector_ids.
update_sql(c) ==
    LET f == frames[c]
        document_batch == batch_of(f.stream, f.i, f.batch_size)
        vector_id_map == vector_id_map_of(document_batch, f.vector_id)
        place(d) == CHOOSE j \in 1..Len(document_batch) : document_batch[j] = d
    IN  /\ f.op = "update_embeddings"
        /\ f.pc = "sql"
        /\ sql' = [sql EXCEPT ![f.index] = sql_update_vector_ids(@, vector_id_map)]
        /\ embedded' = [embedded EXCEPT ![f.index] =
              [d \in DocIds |->
                  IF d \in DOMAIN vector_id_map /\ d \in DOMAIN sql[f.index]
                  THEN f.embeddings[place(d)] ELSE @[d]]]
        /\ become(c, IF f.i + f.batch_size >= Len(f.stream) THEN Idle
                     ELSE [f EXCEPT !.pc = "add", !.i = @ + f.batch_size,
                                    !.vector_id = @ + Len(document_batch),
                                    !.embeddings = << >>])
        /\ UNCHANGED <<store, file, saved, last>>

\* delete_all_documents up to the SQL store's call: the index is reset.
delete_reset(c, index_arg, filters) ==
    LET ns == resolve(index_arg)
    IN  /\ frames[c].op = "idle"
        /\ faiss_indexes' = reset_index(faiss_indexes, ns)
        /\ become(c, [op |-> "delete_all_documents", pc |-> "sql", index |-> ns])
        /\ UNCHANGED <<index, vector_dim, update_existing_documents,
                       return_embedding, sql, file, embedded, saved, last>>

\* super().delete_all_documents(index=index).
delete_sql(c) ==
    LET f == frames[c]
    IN  /\ f.op = "delete_all_documents"
        /\ f.pc = "sql"
        /\ sql' = [sql EXCEPT ![f.index] = sql_delete_all_documents(@)]
        /\ embedded' = [embedded EXCEPT ![f.index] = [d \in DocIds |-> NoEmbedding]]
        /\ become(c, Idle)
        /\ UNCHANGED <<store, file, saved, last>>

\* The call of caller c ends where it stands: the store call it is about
\* to make raises, or the process stops.
stop(c) ==
    LET f == frames[c]
    IN  /\ f.op \in {"write_documents", "update_embeddings", "delete_all_documents"}
        /\ become(c, Idle)
        /\ last' = [op |-> "stopped", call |-> f.op, pc |-> f.pc,
                    index |-> f.index]
        /\ UNCHANGED <<store, sql, file, embedded, saved>>

\* ------------------------------------------------------------- __init__
\* The similarity argument of __init__.
Similarities == {"dot_product", "cosine"}

\* The faiss_index argument of __init__: None, or an index used before
\* that holds a vector.
GivenIndexes == {Absent, <<add(index_factory(2), <<(<<1, 1>>)>>)>>}

\* __init__ has set self.vector_dim and self.faiss_indexes = {}; index,
\* return_embedding and update_existing_documents are attributes the
\* object does not have yet (None and False stand for them), and the
\* database at sql_url is new. The arguments are in the caller's frame.
InitNew ==
    /\ vector_dim = 2
    /\ faiss_indexes = NoIndexes
    /\ index = None
    /\ update_existing_documents = FALSE
    /\ return_embedding = FALSE
    /\ sql = [n \in Namespaces |-> EmptyRows]
    /\ file = << >>
    /\ embedded = [n \in Namespaces |-> [d \in DocIds |-> NoEmbedding]]
    /\ assigned = [n \in Namespaces |-> [ever |-> {}, since_reset |-> {}]]
    /\ saved = << >>
    /\ last = [op |-> "new"]
    /\ overlapped = FALSE
    /\ \E similarity \in Similarities, index_arg \in Namespaces,
          faiss_index \in GivenIndexes,
          return_embedding_arg \in BOOLEAN,
          update_existing_documents_arg \in BOOLEAN :
          frames = [c \in Callers |->
                       IF c = "a"
                       THEN [op |-> "__init__", pc |-> "index",
                             index |-> index_arg,
                             similarity |-> similarity,
                             faiss_index |-> faiss_index,
                             return_embedding |-> return_embedding_arg,
                             update_existing_documents |->
                                 update_existing_documents_arg]
                       ELSE Idle]

\* if faiss_index: self.faiss_indexes[index] = faiss_index
\* else: self.faiss_indexes[index] = self._create_new_index(...)
init_index(c) ==
    LET f == frames[c]
    IN  /\ f.op = "__init__"
        /\ f.pc = "index"
        /\ faiss_indexes' =
              register(faiss_indexes, f.index,
                       IF f.faiss_index # Absent
                       THEN f.faiss_index[1]
                       ELSE create_new_index(vector_dim))
        /\ become(c, [f EXCEPT !.pc = "similarity"])
        /\ UNCHANGED <<index, vector_dim, update_existing_documents,
                       return_embedding, sql, file, embedded, saved, last>>

\* self.return_embedding = return_embedding, then the similarity check:
\* anything but "dot_product" raises ValueError, and the caller gets no
\* store.
init_similarity(c) ==
    LET f == frames[c]
    IN  /\ f.op = "__init__"
        /\ f.pc = "similarity"
        /\ return_embedding' = f.return_embedding
        /\ IF f.similarity = "dot_product"
           THEN /\ become(c, [f EXCEPT !.pc = "super"])
                /\ UNCHANGED last
           ELSE /\ become(c, [f EXCEPT !.pc = "raised"])
                /\ last' = [op |-> "__init__", ok |-> FALSE,
                            error |-> "ValueError"]
        /\ UNCHANGED <<faiss_indexes, index, vector_dim,
                       update_existing_documents, sql, file, embedded, saved>>

\* super().__init__(url=sql_url, update_existing_documents=..., index=index):
\* the store is constructed.
init_super(c) ==
    LET f == frames[c]
    IN  /\ f.op = "__init__"
        /\ f.pc = "super"
        /\ index' = f.index
        /\ update_existing_documents' = f.update_existing_documents
        /\ become(c, Idle)
        /\ last' = [op |-> "__init__", ok |-> TRUE, error |-> None]
        /\ UNCHANGED <<faiss_indexes, vector_dim, return_embedding, sql,
                       file, embedded, saved>>

\* ------------------------------------------------------ specifications
\* The lists handed to write_documents: documents with pairwise distinct
\* ids, in any order, each with or without embedding; the empty list.
DocumentLists ==
    {docs \in UNION {[1..n -> InputDocs] : n \in 0..Cardinality(DocIds)} :
        \A i, j \in DOMAIN docs : docs[i].id = docs[j].id => i = j}

BatchSizes == 1..MaxBatchSize

ReturnEmbeddingArgs == {None, "True", "False"}

Writes(index_args, batch_sizes) ==
    \E documents \in DocumentLists, index_arg \in index_args,
       batch_size \in batch_sizes :
        WriteDocuments(documents, index_arg, batch_size)

Updates(index_args, batch_sizes) ==
    \E index_arg \in index_args, update_existing_embeddings \in BOOLEAN,
       filters \in Filters, batch_size \in batch_sizes :
        UpdateEmbeddings(index_arg, update_existing_embeddings, filters, batch_size)

Deletes(index_args) ==
    \E index_arg \in index_args, filters \in Filters :
        DeleteAllDocuments(index_arg, filters)

Queries(index_args) ==
    \E query_emb \in Embeddings, top_k \in 1..MaxTopK, index_arg \in index_args,
       return_embedding_arg \in ReturnEmbeddingArgs :
        QueryByEmbedding(query_emb, top_k, index_arg, return_embedding_arg)

GetAlls(index_args) ==
    \E index_arg \in index_args, filters \in Filters,
       return_embedding_arg \in ReturnEmbeddingArgs :
        GetAllDocuments(index_arg, filters, return_embedding_arg)

GetByIds(index_args) ==
    \E ids \in Perms(DocIds), index_arg \in index_args :
        GetDocumentsById(ids, index_arg)

\* The documents argument of train_index: None or a list.
TrainDocuments == {Absent} \cup {<<documents>> : documents \in DocumentLists}

\* The embeddings argument of train_index: None or an array (n x d) of
\* n >= 1 vectors.
TrainEmbeddings ==
    {Absent} \cup {<<embeddings>> :
        embeddings \in UNION {[1..n -> Embeddings] : n \in 1..MaxBatchSize}}

Trains(index_args) ==
    \E documents \in TrainDocuments, embeddings \in TrainEmbeddings,
       index_arg \in index_args :
        TrainIndex(documents, embeddings, index_arg)

\* The writer's calls on the store's own namespace, one at a time.
Calls ==
    \/ Writes({None}, BatchSizes)
    \/ Updates({None}, BatchSizes)
    \/ Deletes({None})

Next == Calls /\ UNCHANGED <<assigned, frames, overlapped>>

Spec == Init /\ [][Next]_vars

\* The same, keeping the history of the vector ids given to documents.
assigned_after(call) ==
    IF call.op \in {"write_documents", "update_embeddings"}
    THEN [assigned EXCEPT ![call.index] =
             [ever |-> @.ever \cup call.given,
              since_reset |-> @.since_reset \cup call.given]]
    ELSE IF call.op = "delete_all_documents"
    THEN [assigned EXCEPT ![call.index].since_reset = {}]
    ELSE assigned

NextHistory ==
    /\ Calls
    /\ assigned' = assigned_after(last')
    /\ UNCHANGED <<frames, overlapped>>

SpecHistory == Init /\ [][NextHistory]_vars

\* The writer's calls with the largest batch size, and the reads.
NextRead ==
    /\ \/ Writes({None}, {MaxBatchSize})
       \/ Updates({None}, {MaxBatchSize})
       \/ Deletes({None})
       \/ Queries({None})
       \/ GetAlls({None})
       \/ GetByIds({None})
    /\ UNCHANGED <<assigned, frames, overlapped>>

SpecRead == Init /\ [][NextRead]_vars

\* The store with save and load; load names the namespace the index was
\* created for, as its docstring demands.
NextPersist ==
    /\ \/ Writes({None}, {MaxBatchSize})
       \/ Updates({None}, {MaxBatchSize})
       \/ Deletes({None})
       \/ Save
       \/ Load("document")
    /\ UNCHANGED <<assigned, frames, overlapped>>

SpecPersist == Init /\ [][NextPersist]_vars

\* The writer's calls with the largest batch size, and train_index.
NextTrain ==
    /\ \/ Writes({None}, {MaxBatchSize})
       \/ Updates({None}, {MaxBatchSize})
       \/ Deletes({None})
       \/ Trains({None})
    /\ UNCHANGED <<assigned, frames, overlapped>>

SpecTrain == Init /\ [][NextTrain]_vars

\* The calls on a namespace other than the store's own, which has no index
\* until it is first written to; delete_all_documents on both.
NextNamespaces ==
    /\ \/ Writes({"other"}, {MaxBatchSize})
       \/ Updates({"other"}, {MaxBatchSize})
       \/ Deletes({None, "other"})
       \/ Queries({"other"})
    /\ UNCHANGED <<assigned, frames, overlapped>>

SpecNamespaces == Init /\ [][NextNamespaces]_vars

\* No call is in flight.
quiet == \A c \in Callers : frames[c].op = "idle"

\* The steps of write_documents and update_embeddings for the callers.
write_update_steps(callers, lists, batch_sizes) ==
    \E c \in callers :
       \/ \E documents \in lists, batch_size \in batch_sizes :
             write_begin(c, documents, None, batch_size)
       \/ write_add(c)
       \/ write_sql(c)
       \/ \E update_existing_embeddings \in BOOLEAN, filters \in Filters,
             batch_size \in batch_sizes :
             update_begin(c, None, update_existing_embeddings, filters, batch_size)
       \/ update_add(c)
       \/ update_sql(c)

\* The steps of delete_all_documents for the callers.
delete_steps(callers) ==
    \E c \in callers :
       \/ \E filters \in Filters : delete_reset(c, None, filters)
       \/ delete_sql(c)

\* One caller whose write_documents and update_embeddings calls may end
\* between any two store calls; delete_all_documents runs to its end.
NextCrash ==
    /\ \/ write_update_steps({"a"}, DocumentLists, BatchSizes)
       \/ stop("a")
       \/ quiet /\ Deletes({None}) /\ UNCHANGED <<frames, overlapped>>
    /\ UNCHANGED assigned

SpecCrash == Init /\ [][NextCrash]_vars

\* One caller, each of whose calls may end between any two store calls.
NextSteps ==
    /\ \/ write_update_steps({"a"}, DocumentLists, BatchSizes)
       \/ delete_steps({"a"})
       \/ stop("a")
    /\ UNCHANGED assigned

SpecSteps == Init /\ [][NextSteps]_vars

\* The lists of at most one document.
ShortLists == {documents \in DocumentLists : Len(documents) <= 1}

\* Two callers without lock, whose write_documents calls (of one document)
\* and update_embeddings calls interleave store call by store call;
\* delete_all_documents runs when no call is in flight.
NextConcurrent ==
    /\ \/ write_update_steps(Callers, ShortLists, {MaxBatchSize})
       \/ quiet /\ Deletes({None}) /\ UNCHANGED <<frames, overlapped>>
    /\ UNCHANGED assigned

SpecConcurrent == Init /\ [][NextConcurrent]_vars

\* The constructor, statement by statement, and the constructed store's
\* write_documents and delete_all_documents calls.
NextConstruct ==
    /\ \/ init_index("a")
       \/ init_similarity("a")
       \/ init_super("a")
       \/ /\ quiet
          /\ Writes({None}, {MaxBatchSize}) \/ Deletes({None})
          /\ UNCHANGED <<frames, overlapped>>
    /\ UNCHANGED assigned

SpecConstruct == InitNew /\ [][NextConstruct]_vars

\* The lists of document 1 alone, with or without embedding, and the empty
\* list.
ListsOfOne ==
    {documents \in ShortLists : \A j \in DOMAIN documents : documents[j].id = 1}

\* write_documents, update_embeddings, delete_all_documents and train_index
\* on the store's own namespace and on another one, with one document per
\* namespace.
NextIsolation ==
    /\ \/ \E documents \in ListsOfOne, index_arg \in {None, "other"} :
             WriteDocuments(documents, index_arg, MaxBatchSize)
       \/ Updates({None, "other"}, {MaxBatchSize})
       \/ Deletes({None, "other"})
       \/ \E documents \in {Absent} \cup {<<d>> : d \in ListsOfOne},
             embeddings \in {Absent, <<(<<(<<1, 0>>)>>)>>},
             index_arg \in {None, "other"} :
             TrainIndex(documents, embeddings, index_arg)
    /\ UNCHANGED <<assigned, frames, overlapped>>

SpecIsolation == Init /\ [][NextIsolation]_vars

\* ---------------------------------------------------------------- claims
\* The documents of namespace n that carry a vector_id.
with_vector_id(n) == {d \in DOMAIN sql[n] : has_vector_id(sql[n][d])}

\* Whether the last call was a write_documents that succeeded with at
\* least one document, all of them with embeddings.
wrote_embedded ==
    /\ last.op = "write_documents"
    /\ last.ok
    /\ Len(last.ids) >= 1
    /\ \A j \in 1..Len(last.ids) : last.with_embedding[j]

\* C1: a write_documents call that succeeds with N >= 1 documents, all with
\* embeddings, on an index of size S leaves the index at size S + N and
\* document i (0-based) of the list stored with vector_id S + i, whatever
\* the batch size.
C1_WriteAssignsFromSize ==
    wrote_embedded =>
       /\ ntotal(faiss_indexes[last.index]) = last.S + Len(last.ids)
       /\ \A j \in 1..Len(last.ids) :
             /\ last.ids[j] \in DOMAIN sql[last.index]
             /\ sql[last.index][last.ids[j]].vector_id = <<last.S + (j - 1)>>

\* A write of two documents with embeddings that succeeded.
C1_Witness == wrote_embedded /\ Len(last.ids) = 2

\* C2: after any sequence of write_documents, update_embeddings and
\* delete_all_documents calls run one at a time, overwriting writes
\* included, no two documents of a namespace carry the same vector_id.
C2_UniqueVectorIds ==
    \A n \in Namespaces : \A d1, d2 \in with_vector_id(n) :
        sql[n][d1].vector_id = sql[n][d2].vector_id => d1 = d2

\* Two documents carry vector ids, the later one given by a call that
\* found the index non-empty.
C2_Witness ==
    /\ Cardinality(with_vector_id(index)) = 2
    /\ last.op \in {"write_documents", "update_embeddings"}
    /\ last.ok
    /\ last.S = 1

\* C3: after any sequence of completed calls, for every document that
\* carries a vector_id the index holds, at that position, the embedding
\* last supplied for the document by a write or computed for it by the
\* embedder; get_all_documents and get_documents_by_id with embeddings
\* requested attach exactly that vector.
C3_AddressingRoundTrip ==
    /\ \A n \in Namespaces : \A d \in with_vector_id(n) :
          /\ n \in DOMAIN faiss_indexes
          /\ vector_id_of(sql[n][d]) < ntotal(faiss_indexes[n])
          /\ reconstruct(faiss_indexes[n], vector_id_of(sql[n][d]))
                = embedded[n][d]
    /\ (last.op \in {"get_all_documents", "get_documents_by_id"}
           /\ last.with_embedding) =>
          /\ last.ok
          /\ \A j \in 1..Len(last.documents) :
                last.documents[j].vector_id # NoVectorId =>
                   last.documents[j].embedding
                      = embedded[last.index][last.documents[j].id]

\* A read with embeddings returned a document stored at position 1 whose
\* vector differs from the one at position 0.
C3_Witness ==
    /\ last.op \in {"get_all_documents", "get_documents_by_id"}
    /\ last.ok
    /\ last.with_embedding
    /\ \E j \in 1..Len(last.documents) :
          /\ last.documents[j].vector_id = <<1>>
          /\ last.documents[j].embedding
                # reconstruct(faiss_indexes[last.index], 0)

\* The documents update_embeddings is to process, as the claims define
\* them: those matching the filters, and with update_existing_embeddings
\* false only those without vector_id.
eligible(rows, filters, update_existing_embeddings) ==
    {d \in DOMAIN rows :
        /\ filters = NoFilters \/ d \in filters[1]
        /\ update_existing_embeddings \/ ~has_vector_id(rows[d])}

\* C4: an update_embeddings call that succeeds on an index of size S with
\* M eligible documents streams exactly those, never resets the index,
\* leaves it at size S + M, and gives the j-th streamed document (0-based)
\* the vector_id S + j, whatever the batch size.
C4_UpdateAssignsFromSize ==
    [][(last'.op = "update_embeddings" /\ last'.ok) =>
          LET ns == last'.index
              todo == eligible(sql[ns], last'.filters,
                               last'.update_existing_embeddings)
              S == ntotal(faiss_indexes[ns])
              M == Cardinality(todo)
          IN  /\ Range(last'.stream) = todo
              /\ Len(last'.stream) = M
              /\ ntotal(faiss_indexes'[ns]) = S + M
              /\ SubSeq(faiss_indexes'[ns].xb, 1, S) = faiss_indexes[ns].xb
              /\ \A j \in 1..M :
                    sql'[ns][last'.stream[j]].vector_id = <<S + (j - 1)>>
      ]_vars

\* An update that streamed document 2 before document 1 and succeeded.
C4_Witness ==
    /\ last.op = "update_embeddings"
    /\ last.ok
    /\ last.stream = <<2, 1>>

\* C5: update_embeddings never shrinks the index and leaves every document
\* it does not process as it was: those that have a vector_id when
\* update_existing_embeddings is false, those the filters do not match.
C5_UpdateFrame ==
    [][last'.op = "update_embeddings" =>
          LET ns == last'.index
              todo == eligible(sql[ns], last'.filters,
                               last'.update_existing_embeddings)
          IN  /\ DOMAIN faiss_indexes' = DOMAIN faiss_indexes
              /\ ns \in DOMAIN faiss_indexes =>
                    /\ ntotal(faiss_indexes'[ns]) >= ntotal(faiss_indexes[ns])
                    /\ SubSeq(faiss_indexes'[ns].xb, 1, ntotal(faiss_indexes[ns]))
                          = faiss_indexes[ns].xb
              /\ DOMAIN sql'[ns] = DOMAIN sql[ns]
              /\ \A d \in DOMAIN sql[ns] \ todo : sql'[ns][d] = sql[ns][d]
      ]_vars

\* An update with update_existing_embeddings false gave one document a
\* vector_id while the other kept the one it had.
C5_Witness ==
    /\ last.op = "update_embeddings"
    /\ ~last.update_existing_embeddings
    /\ last.ok
    /\ last.S = 1
    /\ Len(last.stream) = 1
    /\ Cardinality(with_vector_id(last.index)) = 2

\* C6: after delete_all_documents on a namespace, with or without filters,
\* its index is empty and it holds no document, and the next
\* write_documents with embeddings on it assigns vector ids from 0.
C6_DeleteRestartsAtZero ==
    /\ last.op = "delete_all_documents" =>
          /\ last.index \in DOMAIN faiss_indexes =>
                ntotal(faiss_indexes[last.index]) = 0
          /\ sql[last.index] = EmptyRows
    /\ (last.op = "write_documents" /\ last.after_delete /\ last.add_vectors) =>
          /\ last.S = 0
          /\ last.ok =>
                \A j \in 1..Len(last.ids) :
                   sql[last.index][last.ids[j]].vector_id = <<j - 1>>

\* A write right after a delete gave vector_id 0 to the one document it
\* stored, on a namespace where vector_id 1 had been given before.
C6_Witness ==
    /\ last.op = "write_documents"
    /\ last.after_delete
    /\ last.ok
    /\ last.given = {0}
    /\ 1 \in assigned[last.index].ever

\* C7 as stated: a vector_id once given to a document of a namespace is
\* never given again to a document of that namespace.
C7_NeverReusedEver ==
    [][last'.op \in {"write_documents", "update_embeddings"} =>
          last'.given \cap assigned[last'.index].ever = {}]_vars

\* C7, amended: a vector_id given to a document of a namespace is not given
\* again before the next delete_all_documents on that namespace, also when
\* the document that held it has been overwritten or re-embedded; every id
\* given is a position of the index.
C7_NeverReusedSinceReset ==
    [][last'.op \in {"write_documents", "update_embeddings"} =>
          /\ last'.given \cap assigned[last'.index].since_reset = {}
          /\ \A v \in last'.given :
                /\ v >= ntotal(faiss_indexes[last'.index])
                /\ v < ntotal(faiss_indexes'[last'.index])
      ]_vars

\* A document that held vector_id 0 was written again and holds 1 now;
\* no document holds 0.
C7_Witness ==
    /\ last.op = "write_documents"
    /\ last.ok
    /\ last.given = {1}
    /\ assigned[last.index].since_reset = {0, 1}
    /\ Cardinality(with_vector_id(last.index)) = 1

\* C8: query_by_embedding with top_k = k returns at most min(k, index size)
\* documents, hence fewer than k when the index holds fewer than k vectors;
\* no returned document stands for the sentinel id -1, and no document is
\* returned twice.
C8_QueryResultBounded ==
    (last.op = "query_by_embedding" /\ last.ok) =>
       /\ Len(last.documents) <= Min(last.top_k, last.ntotal)
       /\ last.ntotal < last.top_k => Len(last.documents) < last.top_k
       /\ \A j \in 1..Len(last.documents) :
             /\ last.documents[j].vector_id # Sentinel
             /\ last.documents[j].score # SentinelScore
       /\ \A i, j \in 1..Len(last.documents) :
             last.documents[i].id = last.documents[j].id => i = j

\* A query for three neighbours on an index of two vectors: the search
\* padded its result with the sentinel and two documents came back.
C8_Witness ==
    /\ last.op = "query_by_embedding"
    /\ last.ok
    /\ last.top_k = 3
    /\ last.ntotal = 2
    /\ Sentinel \in Range(last.I)
    /\ Len(last.documents) = 2

\* C9: the list query_by_embedding returns is ordered by descending score,
\* each document's score being the inner product the search returned for
\* its vector_id, in whatever order the SQL store's lookup by vector ids
\* hands the documents over.
C9_DescendingScores ==
    (last.op = "query_by_embedding" /\ last.ok) =>
       /\ \A j \in 1..Len(last.documents) :
             last.documents[j].score
                = InnerProduct(last.query_emb,
                               reconstruct(faiss_indexes[last.index],
                                           last.documents[j].vector_id))
       /\ \A j \in 1..(Len(last.documents) - 1) :
             last.documents[j].score >= last.documents[j + 1].score

\* What a vector_id resolves to in an index: <<the vector>>, or << >> where
\* reconstruct raises because the index holds no such position.
resolved(ix, vector_id) ==
    IF vector_id < ntotal(ix) THEN <<reconstruct(ix, vector_id)>> ELSE << >>

\* C10: a store loaded from the file a store saved, on the same database
\* and under the same namespace name, with no write, update or delete in
\* between, has an index of the same size and dimension, resolves every
\* document's vector_id to the same vector, and answers every query, for
\* every top_k, with the same documents and scores.
C10_SaveLoadRoundTrip ==
    (last.op = "load" /\ saved # << >> /\ last.index = saved[1].index) =>
       LET ns == last.index
           was == saved[1]
       IN  /\ ns \in DOMAIN faiss_indexes
           /\ ntotal(faiss_indexes[ns]) = ntotal(was.ix)
           /\ faiss_indexes[ns].d = was.ix.d
           /\ vector_dim = was.ix.d
           /\ \A d \in with_vector_id(ns) :
                 resolved(faiss_indexes[ns], vector_id_of(sql[ns][d]))
                    = resolved(was.ix, vector_id_of(was.rows[d]))
           /\ \A query_emb \in Embeddings, top_k \in 1..MaxTopK,
                 with_embedding \in BOOLEAN :
                 query_outcomes(faiss_indexes[ns], sql[ns], query_emb, top_k,
                                with_embedding)
                    = query_outcomes(was.ix, was.rows, query_emb, top_k,
                                     with_embedding)

\* A store was loaded from the file of a store that held two documents
\* with different vectors.
C10_Witness ==
    /\ last.op = "load"
    /\ saved # << >>
    /\ ntotal(saved[1].ix) = 2
    /\ reconstruct(saved[1].ix, 0) # reconstruct(saved[1].ix, 1)
    /\ Cardinality(with_vector_id(last.index)) = 2

\* A document of a namespace carries a vector_id exactly when a vector was
\* appended to the namespace's index for it, and the vector is there.
stamped_iff_appended ==
    \A n \in Namespaces : \A d \in DOMAIN sql[n] :
        /\ has_vector_id(sql[n][d]) <=> embedded[n][d] # NoEmbedding
        /\ has_vector_id(sql[n][d]) =>
              /\ n \in DOMAIN faiss_indexes
              /\ vector_id_of(sql[n][d]) < ntotal(faiss_indexes[n])

\* C11 as stated: a document carries a vector_id exactly when a vector was
\* appended for it; a document written with an embedding always ends up
\* with a vector_id, one written without has none.
C11_WrittenWithEmbeddingIsStamped ==
    /\ stamped_iff_appended
    /\ (last.op = "write_documents" /\ last.ok) =>
          \A j \in 1..Len(last.ids) :
             last.with_embedding[j]
                <=> has_vector_id(sql[last.index][last.ids[j]])

\* C11, amended: a document carries a vector_id exactly when a vector was
\* appended for it; the documents a write_documents call stores all end up
\* with a vector_id when the first document of the list carries an
\* embedding and all without when it carries none, whatever they carry
\* themselves; a document without vector_id gets one only from an
\* update_embeddings that streams it or a write_documents that stores it.
C11_StampedIffAppended ==
    /\ [](/\ stamped_iff_appended
          /\ (last.op = "write_documents" /\ last.ok) =>
                \A j \in 1..Len(last.ids) :
                   last.with_embedding[1]
                      <=> has_vector_id(sql[last.index][last.ids[j]]))
    /\ [][\A n \in Namespaces : \A d \in DOMAIN sql[n] \cap DOMAIN sql'[n] :
             (~has_vector_id(sql[n][d]) /\ has_vector_id(sql'[n][d])) =>
                /\ last'.index = n
                /\ \/ /\ last'.op = "update_embeddings"
                      /\ d \in Range(last'.stream)
                   \/ /\ last'.op = "write_documents"
                      /\ d \in Range(last'.ids)
                      /\ last'.with_embedding[1]]_vars

\* A write stored a document that carries an embedding behind one that
\* carries none: neither has a vector_id.
C11_Witness ==
    /\ last.op = "write_documents"
    /\ last.ok
    /\ last.with_embedding = <<FALSE, TRUE>>
    /\ \A j \in 1..2 : ~has_vector_id(sql[last.index][last.ids[j]])

\* C15 as stated: if any document of the list handed to write_documents
\* carries an embedding, vectors are appended and every document of the
\* list is stamped with a vector_id.
C15_AnyEmbeddingStampsAll ==
    (last.op = "write_documents"
        /\ \E j \in 1..Len(last.ids) : last.with_embedding[j]) =>
       /\ last.add_vectors
       /\ ntotal(faiss_indexes[last.index]) = last.S + Len(last.ids)
       /\ \A j \in 1..Len(last.ids) :
             /\ last.ids[j] \in DOMAIN sql[last.index]
             /\ has_vector_id(sql[last.index][last.ids[j]])

\* C15, amended: write_documents treats the list as embedding-bearing
\* exactly when its first document carries an embedding.  Then a call that
\* succeeds has appended one vector for every document and stamped every
\* document, and a call that fails (a chunk held a document without
\* embedding, or the SQL store rejected a chunk) has stamped only documents
\* of the chunks before.  Otherwise no vector is appended and no document
\* stamped, also when later documents carry embeddings.
C15_FirstDocumentDecides ==
    last.op = "write_documents" =>
       /\ last.add_vectors <=> (Len(last.ids) >= 1 /\ last.with_embedding[1])
       /\ (last.add_vectors /\ last.ok) =>
             /\ \A j \in 1..Len(last.ids) : last.with_embedding[j]
             /\ ntotal(faiss_indexes[last.index]) = last.S + Len(last.ids)
             /\ \A j \in 1..Len(last.ids) :
                   sql[last.index][last.ids[j]].vector_id = <<last.S + (j - 1)>>
       /\ (last.add_vectors /\ ~last.ok) =>
             \A v \in last.given : \E j \in 1..Len(last.ids) :
                /\ v = last.S + (j - 1)
                /\ \A k \in 1..j : last.with_embedding[k]
       /\ ~last.add_vectors =>
             /\ ntotal(faiss_indexes[last.index]) = last.S
             /\ last.given = {}
             /\ last.ok => \A j \in 1..Len(last.ids) :
                              ~has_vector_id(sql[last.index][last.ids[j]])

\* A write whose second document alone carries an embedding appended
\* nothing; one whose first document alone carries one failed.
C15_Witness ==
    /\ last.op = "write_documents"
    /\ \/ last.ok /\ last.with_embedding = <<FALSE, TRUE>> /\ ~last.add_vectors
       \/ ~last.ok /\ last.with_embedding = <<TRUE, FALSE>> /\ last.given = {0}

\* C16: when the embedder hands back a number of vectors other than the
\* number of documents of a page, update_embeddings raises an assertion
\* error and that page changes nothing: the index holds what it held after
\* the page before, the documents of that page and of the later pages keep
\* what they had, and the pages before stay committed in both stores.
C16_FailingPageChangesNothing ==
    [][(last'.op = "update_embeddings" /\ last'.error = "AssertionError") =>
          LET ns == last'.index
              S == ntotal(faiss_indexes[ns])
              stream == last'.stream
              k == last'.done
          IN  /\ k < Len(stream)
              /\ ntotal(faiss_indexes'[ns]) = S + k
              /\ SubSeq(faiss_indexes'[ns].xb, 1, S) = faiss_indexes[ns].xb
              /\ \A j \in 1..k :
                    /\ sql'[ns][stream[j]].vector_id = <<S + (j - 1)>>
                    /\ reconstruct(faiss_indexes'[ns], S + (j - 1))
                          = embedded'[ns][stream[j]]
              /\ \A j \in (k + 1)..Len(stream) :
                    /\ sql'[ns][stream[j]] = sql[ns][stream[j]]
                    /\ embedded'[ns][stream[j]] = embedded[ns][stream[j]]
              /\ DOMAIN sql'[ns] = DOMAIN sql[ns]
      ]_vars

\* An update raised on its second page: the document of the first page has
\* its new vector_id, the other has none.
C16_Witness ==
    /\ last.op = "update_embeddings"
    /\ last.error = "AssertionError"
    /\ Len(last.stream) = 2
    /\ last.done = 1
    /\ has_vector_id(sql[last.index][last.stream[1]])
    /\ ~has_vector_id(sql[last.index][last.stream[2]])

\* The positions of the index of namespace n no document refers to.
orphans(n) ==
    {v \in 0..(ntotal(faiss_indexes[n]) - 1) :
        \A d \in with_vector_id(n) : vector_id_of(sql[n][d]) # v}

\* C18: the vectors that update_embeddings (or an overwriting write) has
\* superseded stay in the index, and query_by_embedding never returns a
\* document for them: every document returned is stored, is returned with
\* its current vector_id and is scored with the inner product of the query
\* and its current vector.
C18_ScoredWithCurrentVector ==
    (last.op = "query_by_embedding" /\ last.ok) =>
       \A j \in 1..Len(last.documents) :
          LET doc == last.documents[j]
          IN  /\ doc.id \in with_vector_id(last.index)
              /\ doc.vector_id = vector_id_of(sql[last.index][doc.id])
              /\ doc.vector_id \notin orphans(last.index)
              /\ doc.score = InnerProduct(last.query_emb,
                                          embedded[last.index][doc.id])
              /\ doc.embedding \in {NoEmbedding, embedded[last.index][doc.id]}

\* A document was re-embedded; the search put the superseded vector first,
\* and the query returned the document with the lower score of its
\* current vector.
C18_Witness ==
    /\ last.op = "query_by_embedding"
    /\ last.ok
    /\ last.I[1] \in orphans(last.index)
    /\ Len(last.documents) = 1
    /\ last.documents[1].vector_id = 1
    /\ last.documents[1].score < last.D[1]

\* C13: train_index called with both a document list and an embedding
\* batch raises, called with neither it raises as well, and in both cases
\* the index is not trained and nothing changes.
C13_TrainNeedsExactlyOne ==
    [][(last'.op = "train_index" /\ last'.documents = last'.embeddings) =>
          /\ ~last'.ok
          /\ last'.error = "ValueError"
          /\ last'.trained = << >>
          /\ UNCHANGED <<store, sql>>]_vars

\* C14: update_embeddings and query_by_embedding on a namespace without a
\* registered index raise and leave the registry, every index and every
\* document as they were; a namespace gets an index only when the store is
\* built or loaded or at a write_documents to it.
C14_NoIndexNoLazyCreation ==
    [][/\ (last'.op \in {"update_embeddings", "query_by_embedding"}
             /\ last'.index \notin DOMAIN faiss_indexes) =>
             /\ ~last'.ok
             /\ last'.op = "update_embeddings" => last'.error = "ValueError"
             /\ UNCHANGED <<store, sql, embedded, file>>
       /\ \A n \in DOMAIN faiss_indexes' \ DOMAIN faiss_indexes :
             /\ last'.op \in {"write_documents", "load"}
             /\ last'.index = n
      ]_vars

\* A query on a namespace without index raised, the store's own namespace
\* alone having its index.
C14_Witness ==
    /\ last.op = "query_by_embedding"
    /\ ~last.ok
    /\ last.index = "other"
    /\ DOMAIN faiss_indexes = {"document"}

\* Every document that carries a vector_id has its own vector at that
\* position of its namespace's index.
own_vector_behind ==
    \A n \in Namespaces : \A d \in with_vector_id(n) :
        /\ n \in DOMAIN faiss_indexes
        /\ vector_id_of(sql[n][d]) < ntotal(faiss_indexes[n])
        /\ reconstruct(faiss_indexes[n], vector_id_of(sql[n][d])) = embedded[n][d]

\* C17: in write_documents and update_embeddings the vectors of a chunk or
\* page are appended before its metadata is written, so a call that ends
\* between the two leaves orphaned vectors and never a document whose
\* vector_id has no vector behind it; a later call starts its ids at the
\* size the index has then and gives no vector_id a document already holds.
C17_VectorsBeforeMetadata ==
    /\ [](own_vector_behind /\ C2_UniqueVectorIds)
    /\ [][\A c \in Callers :
            /\ (frames[c].op = "idle"
                  /\ frames'[c].op \in {"write_documents", "update_embeddings"}) =>
                  frames'[c].vector_id
                     = ntotal(faiss_indexes'[frames'[c].index])
            /\ (frames[c].op \in {"write_documents", "update_embeddings"}
                  /\ sql' # sql) =>
                  LET n == frames[c].index
                  IN  /\ frames[c].pc = "sql"
                      /\ faiss_indexes' = faiss_indexes
                      /\ \A d \in {x \in DOMAIN sql'[n] : has_vector_id(sql'[n][x])} :
                            (d \notin DOMAIN sql[n] \/ sql'[n][d] # sql[n][d]) =>
                               /\ vector_id_of(sql'[n][d]) < ntotal(faiss_indexes[n])
                               /\ \A e \in with_vector_id(n) :
                                     vector_id_of(sql[n][e])
                                        # vector_id_of(sql'[n][d])
      ]_vars

\* A write_documents call ended between Index.add and the SQL store's
\* write: the index holds a vector, the namespace no document.
C17_Witness ==
    /\ last.op = "stopped"
    /\ last.call = "write_documents"
    /\ last.pc = "sql"
    /\ quiet
    /\ ntotal(faiss_indexes[last.index]) = 1
    /\ sql[last.index] = EmptyRows

\* C19: in every state, the states between the two store calls of
\* write_documents, update_embeddings and delete_all_documents and those
\* left by a failing SQL store call included, every document's vector_id is
\* smaller than the size of its namespace's index, and no more documents
\* carry a vector_id than the index holds vectors.
C19_NoDanglingVectorId ==
    \A n \in Namespaces :
        /\ \A d \in with_vector_id(n) :
              /\ n \in DOMAIN faiss_indexes
              /\ vector_id_of(sql[n][d]) < ntotal(faiss_indexes[n])
        /\ with_vector_id(n) # {} =>
              Cardinality(with_vector_id(n)) <= ntotal(faiss_indexes[n])

\* C20: with two callers and no lock, interleaved write_documents and
\* update_embeddings calls reach states where two documents carry the same
\* vector_id or a document's vector_id is not the position of its own
\* vector; as long as no two calls have been in flight together, no such
\* state is reached.
C20_SerializedCallsKeepIdsRight ==
    ~overlapped => (C2_UniqueVectorIds /\ own_vector_behind)

\* Two interleaved calls have ended and two documents carry the same
\* vector_id.
C20_Witness ==
    /\ overlapped
    /\ quiet
    /\ \E d1, d2 \in with_vector_id(index) :
          /\ d1 # d2
          /\ sql[index][d1].vector_id = sql[index][d2].vector_id

\* C12: a constructor called with a similarity other than "dot_product"
\* fails with an error and never constructs the store, and when it is at
\* the similarity check or has failed it, no index has been created: with
\* no faiss_index given, the store holds no index.
C12_FailsBeforeIndexIsBuilt ==
    \A c \in Callers :
        (/\ frames[c].op = "__init__"
         /\ frames[c].similarity # "dot_product") =>
            /\ frames[c].pc # "super"
            /\ frames[c].pc = "raised" => (~last.ok /\ last.error = "ValueError")
            /\ (/\ frames[c].pc \in {"similarity", "raised"}
                /\ frames[c].faiss_index = Absent) =>
                   faiss_indexes = NoIndexes

\* C21: a write_documents, update_embeddings, delete_all_documents or
\* train_index call on a namespace leaves every other namespace as it was:
\* whether it has an index, the index's size and vectors, its documents and
\* the vector_id of each of them; and a write_documents with embeddings to
\* a namespace whose index is new or empty gives its first document
\* vector_id 0, whatever the other namespaces hold.
C21_NamespaceIsolation ==
    [][last'.op \in {"write_documents", "update_embeddings",
                     "delete_all_documents", "train_index"} =>
          /\ \A B \in Namespaces \ {last'.index} :
                /\ (B \in DOMAIN faiss_indexes') = (B \in DOMAIN faiss_indexes)
                /\ B \in DOMAIN faiss_indexes =>
                      faiss_indexes'[B] = faiss_indexes[B]
                /\ DOMAIN sql'[B] = DOMAIN sql[B]
                /\ \A d \in DOMAIN sql[B] :
                      sql'[B][d].vector_id = sql[B][d].vector_id
          /\ (/\ last'.op = "write_documents"
              /\ last'.ok
              /\ last'.add_vectors
              /\ \/ last'.index \notin DOMAIN faiss_indexes
                 \/ ntotal(faiss_indexes[last'.index]) = 0) =>
                sql'[last'.index][last'.ids[1]].vector_id = <<0>>
      ]_vars

\* The first write with an embedding to namespace "other" gave vector_id 0
\* while the store's own namespace holds two vectors and a document with
\* vector_id 1.
C21_Witness ==
    /\ last.op = "write_documents"
    /\ last.index = "other"
    /\ last.ok
    /\ last.add_vectors
    /\ last.S = 0
    /\ sql["other"][last.ids[1]].vector_id = <<0>>
    /\ ntotal(faiss_indexes["document"]) = 2
    /\ \E d \in with_vector_id("document") :
          sql["document"][d].vector_id = <<1>>

====
